---- MODULE Spec2Model ----
(***************************************************************************)
(* DS1307 real-time-clock driver (DS1307.c / DS1307.h).                    *)
(*                                                                         *)
(* The driver's functions are translated as operators over a record        *)
(*   s = [usr |-> the ds1307_context_t, reg |-> the chip's registers,      *)
(*        log |-> the transport transactions issued so far by the call]    *)
(* and every driver call is one action that applies the operator of the    *)
(* called function to the current state.  The transport behind the two     *)
(* function pointers is the register file of the chip: a send stores the   *)
(* byte at the register address, a read returns the byte stored there.     *)
(***************************************************************************)
EXTENDS Integers, Sequences, FiniteSets, TLC

VARIABLES
    usr,    \* the ds1307_context_t of the caller
    reg,    \* the chip's registers 0x00..0x07, one byte each
    log,    \* the transport transactions of the last completed call
    op,     \* the last completed driver call: [name, arg]
    step,   \* how many calls of the observed call sequence have completed
    input,  \* what the observed call sequence started from
    calls   \* how many driver calls have completed, counted up to MaxCalls

vars == <<usr, reg, log, op, step, input, calls>>

---------------------------------------------------------------------------
(* Enumerations of DS1307.h *)

DS1307_WRITE_ADR == 208
DS1307_READ_ADR == 209

DS1307_SEC_REG_ADR == 0
DS1307_MIN_REG_ADR == 1
DS1307_HOUR_REG_ADR == 2
DS1307_DAY_REG_ADR == 3
DS1307_DATE_REG_ADR == 4
DS1307_MONTH_REG_ADR == 5
DS1307_YEAR_REG_ADR == 6
DS1307_CONT_REG_ADR == 7

DS1307_CLOCK_ENABLE == 0
DS1307_CLOCK_DISABLE == 1

DS1307_AM == 0
DS1307_PM == 1
DS1307_NONE == 2

DS1307_HOUR_FORMAT_24 == 0
DS1307_HOUR_FORMAT_12 == 1

---------------------------------------------------------------------------
(* Fixed-width arithmetic and the bit operations the driver uses *)

U8(n) == n % 256
U16(n) == n % 65536

Pow2(n) == IF n = 0 THEN 1 ELSE IF n = 1 THEN 2 ELSE IF n = 2 THEN 4
           ELSE IF n = 3 THEN 8 ELSE IF n = 4 THEN 16 ELSE IF n = 5 THEN 32
           ELSE IF n = 6 THEN 64 ELSE 128

\* (b >> n) & 1
Bit(b, n) == (b \div Pow2(n)) % 2

\* b |= (1U << n)
SetBit(b, n) == IF Bit(b, n) = 1 THEN b ELSE b + Pow2(n)

\* b &= ~(1U << n)
ClearBit(b, n) == IF Bit(b, n) = 1 THEN b - Pow2(n) ELSE b

---------------------------------------------------------------------------
(* BCD codec *)

\* static uint8_t BcdToDec(uint8_t value)
BcdToDec(value) == U8(((value \div 16) * 10) + (value % 16))

\* DecToBcd with the two digits in the opposite nibbles
DecToBcd_swapped(value) == U8(((U8(value) % 10) * 16) + (U8(value) \div 10))

\* static uint8_t DecToBcd(uint8_t value)
DecToBcd(value) == U8(((U8(value) \div 10) * 16) + (U8(value) % 10))

---------------------------------------------------------------------------
(* Transport: the two function pointers, backed by the chip's registers *)

Txn(fn, address, reg_adr, data, size) ==
    [fn |-> fn, address |-> address, reg_adr |-> reg_adr, data |-> data, size |-> size]

\* static void ds1307_i2c_send(usr, address, reg_adr, ds1307_data, size), size = 1
ds1307_i2c_send(s, address, reg_adr, data) ==
    [s EXCEPT !.reg[reg_adr] = data,
              !.log = Append(@, Txn("send", address, reg_adr, data, 1))]

\* static void ds1307_i2c_read(usr, address, reg_adr, ds1307_data, size), size = 1:
\* the state after the read; the byte it returns is s.reg[reg_adr]
ds1307_i2c_read(s, address, reg_adr) ==
    [s EXCEPT !.log = Append(@, Txn("read", address, reg_adr, s.reg[reg_adr], 1))]

---------------------------------------------------------------------------
(* Single-register accessors *)

\* ds1307_set_minute that also stores the minute in the context
ds1307_set_minute_cached(s, minute) ==
    LET s1 == ds1307_i2c_send(s, DS1307_WRITE_ADR, DS1307_MIN_REG_ADR, DecToBcd(minute))
    IN  [s1 EXCEPT !.usr.minute = minute]

\* void ds1307_set_minute(usr, minute)
ds1307_set_minute(s, minute) ==
    ds1307_i2c_send(s, DS1307_WRITE_ADR, DS1307_MIN_REG_ADR, DecToBcd(minute))

\* void ds1307_get_minute(usr)
ds1307_get_minute(s) ==
    LET minute == s.reg[DS1307_MIN_REG_ADR]
        s1 == ds1307_i2c_read(s, DS1307_READ_ADR, DS1307_MIN_REG_ADR)
    IN  [s1 EXCEPT !.usr.minute = BcdToDec(minute)]

\* ds1307_set_second that keeps the CH bit the seconds register already has
ds1307_set_second_keepCH(s, second) ==
    ds1307_i2c_send(s, DS1307_WRITE_ADR, DS1307_SEC_REG_ADR,
                    IF Bit(s.reg[DS1307_SEC_REG_ADR], 7) = 1
                    THEN SetBit(DecToBcd(second), 7)
                    ELSE DecToBcd(second))

\* void ds1307_set_second(usr, second)
ds1307_set_second(s, second) ==
    ds1307_i2c_send(s, DS1307_WRITE_ADR, DS1307_SEC_REG_ADR, DecToBcd(second))

\* ds1307_get_second without the mask of the CH bit
ds1307_get_second_keepCH(s) ==
    LET second == s.reg[DS1307_SEC_REG_ADR]
        s1 == ds1307_i2c_read(s, DS1307_READ_ADR, DS1307_SEC_REG_ADR)
    IN  [s1 EXCEPT !.usr.second = BcdToDec(second)]

\* void ds1307_get_second(usr): the CH bit [bit 7] is masked out
ds1307_get_second(s) ==
    LET second == s.reg[DS1307_SEC_REG_ADR]
        s1 == ds1307_i2c_read(s, DS1307_READ_ADR, DS1307_SEC_REG_ADR)
    IN  [s1 EXCEPT !.usr.second = BcdToDec(ClearBit(second, 7))]

\* void ds1307_set_date(usr, date)
ds1307_set_date(s, date) ==
    ds1307_i2c_send(s, DS1307_WRITE_ADR, DS1307_DATE_REG_ADR, DecToBcd(date))

\* ds1307_get_date reading the day-of-week register instead of the date register
ds1307_get_date_dayRegister(s) ==
    LET date == s.reg[DS1307_DAY_REG_ADR]
        s1 == ds1307_i2c_read(s, DS1307_READ_ADR, DS1307_DAY_REG_ADR)
    IN  [s1 EXCEPT !.usr.date = BcdToDec(date)]

\* void ds1307_get_date(usr)
ds1307_get_date(s) ==
    LET date == s.reg[DS1307_DATE_REG_ADR]
        s1 == ds1307_i2c_read(s, DS1307_READ_ADR, DS1307_DATE_REG_ADR)
    IN  [s1 EXCEPT !.usr.date = BcdToDec(date)]

\* void ds1307_set_day(usr, day)
ds1307_set_day(s, day) ==
    ds1307_i2c_send(s, DS1307_WRITE_ADR, DS1307_DAY_REG_ADR, DecToBcd(day))

\* void ds1307_get_day(usr)
ds1307_get_day(s) ==
    LET day == s.reg[DS1307_DAY_REG_ADR]
        s1 == ds1307_i2c_read(s, DS1307_READ_ADR, DS1307_DAY_REG_ADR)
    IN  [s1 EXCEPT !.usr.day = BcdToDec(day)]

\* void ds1307_set_month(usr, month)
ds1307_set_month(s, month) ==
    ds1307_i2c_send(s, DS1307_WRITE_ADR, DS1307_MONTH_REG_ADR, DecToBcd(month))

\* void ds1307_get_month(usr)
ds1307_get_month(s) ==
    LET month == s.reg[DS1307_MONTH_REG_ADR]
        s1 == ds1307_i2c_read(s, DS1307_READ_ADR, DS1307_MONTH_REG_ADR)
    IN  [s1 EXCEPT !.usr.month = BcdToDec(month)]

---------------------------------------------------------------------------
(* Year / century *)

\* ds1307_set_year caching the whole year as the century
ds1307_set_year_fullCentury(s, year) ==
    LET year_8bit == U8(year % 100)
        s1 == [s EXCEPT !.usr.century = U16(year)]
    IN  ds1307_i2c_send(s1, DS1307_WRITE_ADR, DS1307_YEAR_REG_ADR, DecToBcd(year_8bit))

\* void ds1307_set_year(usr, year): year is a uint16_t
ds1307_set_year(s, year) ==
    LET year_8bit == U8(year % 100)
        s1 == [s EXCEPT !.usr.century = U16(year - year_8bit)]
    IN  ds1307_i2c_send(s1, DS1307_WRITE_ADR, DS1307_YEAR_REG_ADR, DecToBcd(year_8bit))

\* ds1307_get_year without the century: the 2-digit value alone
ds1307_get_year_noCentury(s) ==
    LET year == s.reg[DS1307_YEAR_REG_ADR]
        s1 == ds1307_i2c_read(s, DS1307_READ_ADR, DS1307_YEAR_REG_ADR)
    IN  [s1 EXCEPT !.usr.year = U16(BcdToDec(year))]

\* void ds1307_get_year(usr)
ds1307_get_year(s) ==
    LET year == s.reg[DS1307_YEAR_REG_ADR]
        s1 == ds1307_i2c_read(s, DS1307_READ_ADR, DS1307_YEAR_REG_ADR)
    IN  [s1 EXCEPT !.usr.year = U16(s.usr.century + BcdToDec(year))]

---------------------------------------------------------------------------
(* Oscillator control *)

\* ds1307_set_ch as a read-modify-write that keeps the seconds already on the chip
ds1307_set_ch_keepSeconds(s, clock) ==
    IF clock = DS1307_CLOCK_DISABLE
    THEN ds1307_i2c_send(s, DS1307_WRITE_ADR, DS1307_SEC_REG_ADR,
                         SetBit(s.reg[DS1307_SEC_REG_ADR], 7))
    ELSE ds1307_i2c_send(s, DS1307_WRITE_ADR, DS1307_SEC_REG_ADR,
                         ClearBit(s.reg[DS1307_SEC_REG_ADR], 7))

\* void ds1307_set_ch(usr, clock): uint8_t ch = 0, bit 7 set or cleared, sent
ds1307_set_ch(s, clock) ==
    IF clock = DS1307_CLOCK_DISABLE
    THEN ds1307_i2c_send(s, DS1307_WRITE_ADR, DS1307_SEC_REG_ADR, SetBit(0, 7))
    ELSE ds1307_i2c_send(s, DS1307_WRITE_ADR, DS1307_SEC_REG_ADR, ClearBit(0, 7))

---------------------------------------------------------------------------
(* Hour and hour format *)

\* void ds1307_set_hour(usr, hour): hour is a uint8_t, always given in 24-hour form
ds1307_set_hour(s, hour) ==
    IF s.usr.time_format = DS1307_HOUR_FORMAT_12
    THEN LET h12 == hour - 12
             enc == IF hour > 11
                    THEN IF h12 = 0 THEN SetBit(DecToBcd(12), 5)
                         ELSE IF h12 = 12 THEN ClearBit(DecToBcd(h12), 5)
                         ELSE SetBit(DecToBcd(h12), 5)
                    ELSE IF hour = 0 THEN U8(hour + 12)
                    ELSE ClearBit(DecToBcd(hour), 5)
         IN  ds1307_i2c_send(s, DS1307_WRITE_ADR, DS1307_HOUR_REG_ADR, SetBit(enc, 6))
    ELSE ds1307_i2c_send(s, DS1307_WRITE_ADR, DS1307_HOUR_REG_ADR, DecToBcd(hour))

\* ds1307_get_hour without the mask of the AM/PM bit before the BCD decoding
ds1307_get_hour_keepPM(s) ==
    LET raw == s.reg[DS1307_HOUR_REG_ADR]
        s1 == ds1307_i2c_read(s, DS1307_READ_ADR, DS1307_HOUR_REG_ADR)
        time_format == Bit(raw, 6)
        hour == ClearBit(raw, 6)
    IN  IF time_format = DS1307_HOUR_FORMAT_12
        THEN [s1 EXCEPT !.usr.time_format = time_format,
                        !.usr.time_period = Bit(hour, 5),
                        !.usr.hour = BcdToDec(hour)]
        ELSE [s1 EXCEPT !.usr.time_format = time_format,
                        !.usr.time_period = DS1307_NONE,
                        !.usr.hour = BcdToDec(hour)]

\* void ds1307_get_hour(usr)
ds1307_get_hour(s) ==
    LET raw == s.reg[DS1307_HOUR_REG_ADR]
        s1 == ds1307_i2c_read(s, DS1307_READ_ADR, DS1307_HOUR_REG_ADR)
        time_format == Bit(raw, 6)
        hour == ClearBit(raw, 6)
    IN  IF time_format = DS1307_HOUR_FORMAT_12
        THEN [s1 EXCEPT !.usr.time_format = time_format,
                        !.usr.time_period = Bit(hour, 5),
                        !.usr.hour = BcdToDec(ClearBit(hour, 5))]
        ELSE [s1 EXCEPT !.usr.time_format = time_format,
                        !.usr.time_period = DS1307_NONE,
                        !.usr.hour = BcdToDec(hour)]

\* The resync writing the year back without its century
Resync_twoDigitYear(s) ==
    LET s1 == ds1307_set_year(s, s.usr.year % 100)
        s2 == ds1307_set_month(s1, s1.usr.month)
        s3 == ds1307_set_date(s2, s2.usr.date)
        s4 == ds1307_set_day(s3, s3.usr.day)
        s5 == ds1307_set_hour(s4, s4.usr.hour)
        s6 == ds1307_set_minute(s5, s5.usr.minute)
    IN  ds1307_set_second(s6, s6.usr.second)

\* The resync at the end of a format change: the seven fields of the context are
\* written back, each by its own setter (DS1307.c lines 206-212)
Resync(s) ==
    LET s1 == ds1307_set_year(s, s.usr.year)
        s2 == ds1307_set_month(s1, s1.usr.month)
        s3 == ds1307_set_date(s2, s2.usr.date)
        s4 == ds1307_set_day(s3, s3.usr.day)
        s5 == ds1307_set_hour(s4, s4.usr.hour)
        s6 == ds1307_set_minute(s5, s5.usr.minute)
    IN  ds1307_set_second(s6, s6.usr.second)

\* ds1307_set_time_format without the 12 AM -> 0 case of the switch to 24H
ds1307_set_time_format_noMidnight(s, format) ==
    LET s1 == ds1307_get_hour(s)
    IN  IF s1.usr.time_format # format
        THEN LET s2 == ds1307_set_ch(s1, DS1307_CLOCK_DISABLE)
                 s3 == IF format = DS1307_HOUR_FORMAT_12
                       THEN [s2 EXCEPT !.usr.time_format = DS1307_HOUR_FORMAT_12]
                       ELSE [s2 EXCEPT
                               !.usr.time_format = DS1307_HOUR_FORMAT_24,
                               !.usr.hour =
                                   IF s2.usr.time_period = DS1307_PM /\ s2.usr.hour # 12
                                   THEN U8(s2.usr.hour + 12)
                                   ELSE s2.usr.hour]
             IN  Resync(s3)
        ELSE s1

\* ds1307_set_time_format without the comparison with the current format: the
\* conversion and the resync run on every call
ds1307_set_time_format_always(s, format) ==
    LET s1 == ds1307_get_hour(s)
        s2 == ds1307_set_ch(s1, DS1307_CLOCK_DISABLE)
        s3 == IF format = DS1307_HOUR_FORMAT_12 \/ s1.usr.time_format = format
              THEN [s2 EXCEPT !.usr.time_format = format]
              ELSE [s2 EXCEPT
                      !.usr.time_format = DS1307_HOUR_FORMAT_24,
                      !.usr.hour =
                          IF s2.usr.time_period = DS1307_PM
                          THEN IF s2.usr.hour # 12 THEN U8(s2.usr.hour + 12)
                               ELSE s2.usr.hour
                          ELSE IF s2.usr.hour = 12 THEN 0 ELSE s2.usr.hour]
    IN  Resync(s3)

\* ds1307_set_time_format without the halt of the oscillator before the rewrite
ds1307_set_time_format_noHalt(s, format) ==
    LET s1 == ds1307_get_hour(s)
    IN  IF s1.usr.time_format # format
        THEN LET s3 == IF format = DS1307_HOUR_FORMAT_12
                       THEN [s1 EXCEPT !.usr.time_format = DS1307_HOUR_FORMAT_12]
                       ELSE [s1 EXCEPT
                               !.usr.time_format = DS1307_HOUR_FORMAT_24,
                               !.usr.hour =
                                   IF s1.usr.time_period = DS1307_PM
                                   THEN IF s1.usr.hour # 12 THEN U8(s1.usr.hour + 12)
                                        ELSE s1.usr.hour
                                   ELSE IF s1.usr.hour = 12 THEN 0 ELSE s1.usr.hour]
             IN  Resync(s3)
        ELSE s1

\* ds1307_set_time_format adding 12 to every PM hour, 12 PM included
ds1307_set_time_format_pmAlways(s, format) ==
    LET s1 == ds1307_get_hour(s)
    IN  IF s1.usr.time_format # format
        THEN LET s2 == ds1307_set_ch(s1, DS1307_CLOCK_DISABLE)
                 s3 == IF format = DS1307_HOUR_FORMAT_12
                       THEN [s2 EXCEPT !.usr.time_format = DS1307_HOUR_FORMAT_12]
                       ELSE [s2 EXCEPT
                               !.usr.time_format = DS1307_HOUR_FORMAT_24,
                               !.usr.hour =
                                   IF s2.usr.time_period = DS1307_PM
                                   THEN U8(s2.usr.hour + 12)
                                   ELSE IF s2.usr.hour = 12 THEN 0 ELSE s2.usr.hour]
             IN  Resync(s3)
        ELSE s1

\* void ds1307_set_time_format(usr, format)
ds1307_set_time_format(s, format) ==
    LET s1 == ds1307_get_hour(s)
    IN  IF s1.usr.time_format # format
        THEN LET s2 == ds1307_set_ch(s1, DS1307_CLOCK_DISABLE)
                 s3 == IF format = DS1307_HOUR_FORMAT_12
                       THEN [s2 EXCEPT !.usr.time_format = DS1307_HOUR_FORMAT_12]
                       ELSE IF format = DS1307_HOUR_FORMAT_24
                       THEN [s2 EXCEPT
                               !.usr.time_format = DS1307_HOUR_FORMAT_24,
                               !.usr.hour =
                                   IF s2.usr.time_period = DS1307_PM
                                   THEN IF s2.usr.hour # 12 THEN U8(s2.usr.hour + 12)
                                        ELSE s2.usr.hour
                                   ELSE IF s2.usr.hour = 12 THEN 0 ELSE s2.usr.hour]
                       ELSE s2
             IN  Resync(s3)
        ELSE s1

---------------------------------------------------------------------------
(* Bulk read *)

\* DS1307_read_date_time reading the registers in ascending address order
DS1307_read_date_time_ascending(s) ==
    LET s1 == ds1307_get_second(s)
        s2 == ds1307_get_minute(s1)
        s3 == ds1307_get_hour(s2)
        s4 == ds1307_get_day(s3)
        s5 == ds1307_get_date(s4)
        s6 == ds1307_get_month(s5)
    IN  ds1307_get_year(s6)

\* void DS1307_read_date_time(usr)
DS1307_read_date_time(s) ==
    LET s1 == ds1307_get_year(s)
        s2 == ds1307_get_month(s1)
        s3 == ds1307_get_date(s2)
        s4 == ds1307_get_day(s3)
        s5 == ds1307_get_hour(s4)
        s6 == ds1307_get_minute(s5)
    IN  ds1307_get_second(s6)

---------------------------------------------------------------------------
(* State *)

\* A zero-initialised ds1307_context_t (the function pointers are the transport)
ZeroCtx ==
    [day |-> 0, month |-> 0, year |-> 0, hour |-> 0, minute |-> 0, second |-> 0,
     date |-> 0, time_period |-> 0, time_format |-> 0, century |-> 0]

\* The state a driver function starts from: the transaction log of the call is empty
Cur == [usr |-> usr, reg |-> reg, log |-> <<>>]

\* Packed BCD as the register map defines it: tens digit in the high nibble
Packed(v) == (v \div 10) * 16 + (v % 10)

\* Range of the hour argument (DS1307.c: "always provided in 24-hour format (0-23)")
MaxHour == 23
\* Range of the second and minute fields (DS1307.c: "(0 to 59)")
MaxSecond == 59

\* Hour-register bytes that encode an hour: 24H mode, and 12H mode with AM/PM
Hour24Bytes == {Packed(h) : h \in 0..MaxHour}
Hour12Bytes == {64 + 32 * p + Packed(h) : h \in 1..12, p \in {0, 1}}

\* The register file of a chip holding Friday 2025-06-13 xx:30:00 with the given
\* seconds, hour and year bytes
RegFile(sec, hour, year) ==
    [r \in 0..7 |->
        IF r = DS1307_SEC_REG_ADR THEN sec
        ELSE IF r = DS1307_MIN_REG_ADR THEN Packed(30)
        ELSE IF r = DS1307_HOUR_REG_ADR THEN hour
        ELSE IF r = DS1307_DAY_REG_ADR THEN 5
        ELSE IF r = DS1307_DATE_REG_ADR THEN Packed(13)
        ELSE IF r = DS1307_MONTH_REG_ADR THEN Packed(6)
        ELSE IF r = DS1307_YEAR_REG_ADR THEN year
        ELSE 0]

NoInput == [name |-> "none", arg |-> 0, fmt |-> 0]

\* Longest call sequence followed where every driver function is callable (SpecFields)
MaxCalls == 3

InitWith(regs) ==
    /\ usr = ZeroCtx
    /\ reg \in regs
    /\ log = <<>>
    /\ op = [name |-> "init", arg |-> 0]
    /\ step = 0
    /\ input = NoInput
    /\ calls = 0

---------------------------------------------------------------------------
(* Observation of call sequences.  A sequence starts with a set_hour, set_year,    *)
(* set_second, set_ch or set_minute call, or with a bulk read of a chip in 24H     *)
(* mode; input remembers the call that started it (for the bulk read: the hour     *)
(* the chip held) and step counts the calls of the sequence completed so far.      *)

Starts(name) ==
    \/ name \in {"ds1307_set_hour", "ds1307_set_year", "ds1307_set_second", "ds1307_set_ch",
                 "ds1307_set_minute"}
    \/ name = "DS1307_read_date_time" /\ reg[DS1307_HOUR_REG_ADR] \in Hour24Bytes

StartArg(name, arg) ==
    IF name = "DS1307_read_date_time"
    THEN CHOOSE h \in 0..MaxHour : reg[DS1307_HOUR_REG_ADR] = Packed(h)
    ELSE arg

\* Whether the call continues the sequence input started, being its (step+1)-th call
Continues(name, arg) ==
    \/ input.name = "ds1307_set_hour" /\ step = 1 /\ name = "ds1307_get_hour"
    \/ input.name = "ds1307_set_year" /\ step \in {1, 2} /\ name = "ds1307_get_year"
    \/ input.name = "ds1307_set_minute" /\ step = 1 /\ name = "ds1307_get_minute"
    \/ input.name \in {"ds1307_set_second", "ds1307_set_ch"} /\ step = 1
          /\ name = "ds1307_get_second"
    \/ /\ input.name = "DS1307_read_date_time"
       /\ \/ step = 1 /\ name = "ds1307_set_time_format" /\ arg = DS1307_HOUR_FORMAT_12
          \/ step = 2 /\ name = "ds1307_get_hour"
          \/ step = 3 /\ name = "ds1307_set_time_format" /\ arg = DS1307_HOUR_FORMAT_24
          \/ step = 4 /\ name = "ds1307_get_hour"

Observe(name, arg) ==
    IF Starts(name)
    THEN /\ step' = 1
         /\ input' = [name |-> name, arg |-> StartArg(name, arg), fmt |-> usr.time_format]
    ELSE IF Continues(name, arg)
    THEN /\ step' = IF input.name = "ds1307_set_year" THEN 2 ELSE step + 1
         /\ UNCHANGED input
    ELSE /\ step' = 0
         /\ input' = NoInput

\* A driver call: the function's result becomes the state
Call(name, arg, s) ==
    /\ usr' = s.usr
    /\ reg' = s.reg
    /\ log' = s.log
    /\ op' = [name |-> name, arg |-> arg]
    /\ calls' = IF calls < MaxCalls THEN calls + 1 ELSE calls
    /\ Observe(name, arg)

---------------------------------------------------------------------------
(* Actions: one per driver function *)

SetMinute(minute) == Call("ds1307_set_minute", minute, ds1307_set_minute(Cur, minute))
GetMinute == Call("ds1307_get_minute", 0, ds1307_get_minute(Cur))
SetSecond(second) == Call("ds1307_set_second", second, ds1307_set_second(Cur, second))
GetSecond == Call("ds1307_get_second", 0, ds1307_get_second(Cur))
SetHour(hour) == Call("ds1307_set_hour", hour, ds1307_set_hour(Cur, hour))
GetHour == Call("ds1307_get_hour", 0, ds1307_get_hour(Cur))
SetTimeFormat(format) ==
    Call("ds1307_set_time_format", format, ds1307_set_time_format(Cur, format))
SetDate(date) == Call("ds1307_set_date", date, ds1307_set_date(Cur, date))
GetDate == Call("ds1307_get_date", 0, ds1307_get_date(Cur))
SetDay(day) == Call("ds1307_set_day", day, ds1307_set_day(Cur, day))
GetDay == Call("ds1307_get_day", 0, ds1307_get_day(Cur))
SetMonth(month) == Call("ds1307_set_month", month, ds1307_set_month(Cur, month))
GetMonth == Call("ds1307_get_month", 0, ds1307_get_month(Cur))
SetYear(year) == Call("ds1307_set_year", year, ds1307_set_year(Cur, year))
GetYear == Call("ds1307_get_year", 0, ds1307_get_year(Cur))
SetCh(clock) == Call("ds1307_set_ch", clock, ds1307_set_ch(Cur, clock))
ReadDateTime == Call("DS1307_read_date_time", 0, DS1307_read_date_time(Cur))

\* The device rolls its 2-digit year field over to 00.  Not a driver call: the
\* context and the observed call sequence are left as they are.
DeviceYearRollover ==
    /\ reg[DS1307_YEAR_REG_ADR] # 0
    /\ reg' = [reg EXCEPT ![DS1307_YEAR_REG_ADR] = 0]
    /\ log' = <<>>
    /\ op' = [name |-> "device_year_rollover", arg |-> 0]
    /\ UNCHANGED <<usr, step, input, calls>>

---------------------------------------------------------------------------
(* Spec: the hour-format state machine, over every hour 0..23, with the bulk    *)
(* read and the oscillator control; the chip starts with any hour encoding.     *)

Init == InitWith({RegFile(0, h, Packed(25)) : h \in Hour24Bytes \cup Hour12Bytes})

Next ==
    \/ \E hour \in 0..MaxHour : SetHour(hour)
    \/ GetHour
    \/ \E format \in {DS1307_HOUR_FORMAT_24, DS1307_HOUR_FORMAT_12} : SetTimeFormat(format)
    \/ ReadDateTime
    \/ \E clock \in {DS1307_CLOCK_ENABLE, DS1307_CLOCK_DISABLE} : SetCh(clock)

Spec == Init /\ [][Next]_vars

---------------------------------------------------------------------------
(* SpecYear: any sequence of setYear and getYear calls, and device rollovers, from  *)
(* a zero-initialised context and a chip whose year register holds valid BCD.       *)

\* Width of the windows of 2-digit years taken at both ends of a century
YearSpan == 10

\* 2-digit years: both ends of a century, and the 25 of the README's 2025
TwoDigits == (0..YearSpan) \cup {25} \cup ((99 - YearSpan)..99)

\* Full years: the centuries 0, 1900, 2000 and 9900 with those 2-digit parts
YearInputs == {c * 100 + d : c \in {0, 19, 20, 99}, d \in TwoDigits}

InitYear == InitWith({RegFile(0, Packed(14), Packed(d)) : d \in TwoDigits})

NextYear ==
    \/ \E year \in YearInputs : SetYear(year)
    \/ GetYear
    \/ DeviceYearRollover

SpecYear == InitYear /\ [][NextYear]_vars

---------------------------------------------------------------------------
(* SpecSecond: any sequence of setSecond, getSecond and setClockHalt calls, from a  *)
(* zero-initialised context and a chip whose seconds register holds any byte.       *)

InitSecond == InitWith({RegFile(b, Packed(14), Packed(25)) : b \in 0..255})

NextSecond ==
    \/ \E second \in 0..MaxSecond : SetSecond(second)
    \/ GetSecond
    \/ \E clock \in {DS1307_CLOCK_ENABLE, DS1307_CLOCK_DISABLE} : SetCh(clock)

SpecSecond == InitSecond /\ [][NextSecond]_vars

---------------------------------------------------------------------------
(* SpecBcd: the BCD codec applied to every value 0..99, through the accessor pair   *)
(* of the minute register: setMinute encodes its argument with DecToBcd, getMinute  *)
(* decodes the register byte with BcdToDec.                                         *)

\* Largest value the codec is specified for (DS1307.c: "(0 to 99)")
MaxBcd == 99

InitBcd == InitWith({RegFile(0, Packed(14), Packed(25))})

NextBcd ==
    \/ \E value \in 0..MaxBcd : SetMinute(value)
    \/ GetMinute

SpecBcd == InitBcd /\ [][NextBcd]_vars

---------------------------------------------------------------------------
(* SpecFields: every driver function is callable, in any order, for call sequences  *)
(* of up to MaxCalls calls.  The chip starts at 2 PM in either hour mode, with a    *)
(* seconds register that holds 45 or, as on a chip that never was set, the byte     *)
(* 0x7F, which is no BCD value.                                                     *)

InitFields ==
    InitWith({RegFile(sec, hour, Packed(25)) :
                sec \in {Packed(45), 127}, hour \in {Packed(14), 64 + 32 + Packed(2)}})

\* A driver call within the length of the call sequences followed
Within(call) == calls < MaxCalls /\ call

NextFields ==
    \/ \E second \in {MaxSecond} : Within(SetSecond(second))
    \/ Within(GetSecond)
    \/ \E minute \in {MaxSecond} : Within(SetMinute(minute))
    \/ Within(GetMinute)
    \/ \E hour \in {21} : Within(SetHour(hour))
    \/ Within(GetHour)
    \/ \E day \in {7} : Within(SetDay(day))
    \/ Within(GetDay)
    \/ \E date \in {31} : Within(SetDate(date))
    \/ Within(GetDate)
    \/ \E month \in {12} : Within(SetMonth(month))
    \/ Within(GetMonth)
    \/ \E year \in {1999} : Within(SetYear(year))
    \/ Within(GetYear)
    \/ \E clock \in {DS1307_CLOCK_ENABLE, DS1307_CLOCK_DISABLE} : Within(SetCh(clock))
    \/ \E format \in {DS1307_HOUR_FORMAT_24, DS1307_HOUR_FORMAT_12} :
          Within(SetTimeFormat(format))
    \/ Within(ReadDateTime)

SpecFields == InitFields /\ [][NextFields]_vars

---------------------------------------------------------------------------
(* What the hour claims expect, stated independently of the driver's code *)

\* The 12-hour display value and period of a 24-hour value
To12(h) == IF h % 12 = 0 THEN 12 ELSE h % 12
PeriodOf(h) == IF h >= 12 THEN DS1307_PM ELSE DS1307_AM

\* The hour-register byte of the register layout for a 24-hour value in 12H mode:
\* bit7 = 0, bit6 = 1, bit5 = PM, bits[4:0] = packed BCD of the display hour
Hour12Byte(h) == 64 + (IF h >= 12 THEN 32 ELSE 0) + Packed(To12(h))

\* Whether an hour-register byte carries the 12H marker (bit6)
ChipIs12H(b) == (b \div 64) % 2 = 1

HourCalls == {"ds1307_get_hour", "DS1307_read_date_time", "ds1307_set_time_format"}

---------------------------------------------------------------------------
(* Claims on Spec *)

\* C1: format round trip.  After a bulk read of a chip in 24H mode holding hour h,
\* setTimeFormat(H12) then getHour yields the 12-hour equivalent of h with the right
\* period, and a following setTimeFormat(H24) then getHour yields h again in H24.
C1_FormatRoundTrip ==
    input.name = "DS1307_read_date_time" =>
        /\ step = 3 => /\ usr.time_format = DS1307_HOUR_FORMAT_12
                       /\ usr.hour = To12(input.arg)
                       /\ usr.time_period = PeriodOf(input.arg)
        /\ step = 5 => /\ usr.time_format = DS1307_HOUR_FORMAT_24
                       /\ usr.hour = input.arg

C1_Witness ==
    /\ input.name = "DS1307_read_date_time" /\ input.arg = 13 /\ step = 5
    /\ usr.hour = 13 /\ usr.time_format = DS1307_HOUR_FORMAT_24

\* C2: after a completed getHour, readAll or setTimeFormat, timeFormat = H24 implies
\* timePeriod = NONE.
C2_H24ImpliesNone ==
    (op.name \in HourCalls /\ usr.time_format = DS1307_HOUR_FORMAT_24)
        => usr.time_period = DS1307_NONE

\* C3: after a completed getHour, readAll or setTimeFormat, timeFormat = H12 implies
\* hour in 1..12 and timePeriod in {AM, PM}.
C3_H12ImpliesRange ==
    (op.name \in HourCalls /\ usr.time_format = DS1307_HOUR_FORMAT_12)
        => (usr.hour \in 1..12 /\ usr.time_period \in {DS1307_AM, DS1307_PM})

\* C4: with ctx.timeFormat = H12, the single byte setHour(hour24) writes to the hour
\* register is the byte of the register layout for hour24, for every hour24 in 0..23.
C4_SetHour12BitExact ==
    (op.name = "ds1307_set_hour" /\ usr.time_format = DS1307_HOUR_FORMAT_12)
        => log = <<Txn("send", DS1307_WRITE_ADR, DS1307_HOUR_REG_ADR, Hour12Byte(op.arg), 1)>>

\* C5: setHour(hour24) followed by getHour, in mode m = ctx.timeFormat, leaves
\* timeFormat = m; for H24 hour = hour24 with period NONE, for H12 the 12-hour
\* display value of hour24 with AM below 12 and PM from 12 on.
C5_SetGetHourRoundTrip ==
    (input.name = "ds1307_set_hour" /\ step = 2) =>
        /\ usr.time_format = input.fmt
        /\ input.fmt = DS1307_HOUR_FORMAT_24 =>
              (usr.hour = input.arg /\ usr.time_period = DS1307_NONE)
        /\ input.fmt = DS1307_HOUR_FORMAT_12 =>
              (usr.hour = To12(input.arg) /\ usr.time_period = PeriodOf(input.arg))

C5_Witness ==
    /\ input = [name |-> "ds1307_set_hour", arg |-> 0, fmt |-> DS1307_HOUR_FORMAT_12]
    /\ step = 2
    /\ usr.hour = 12 /\ usr.time_period = DS1307_AM

\* C8: setTimeFormat(target) on a chip whose hour register already encodes target
\* issues exactly one transaction, the read of the hour register, and leaves every
\* chip register unchanged.
C8_SameFormatNoOp ==
    [][ ( /\ op'.name = "ds1307_set_time_format"
          /\ ChipIs12H(reg[DS1307_HOUR_REG_ADR]) <=> (op'.arg = DS1307_HOUR_FORMAT_12) )
        => ( /\ reg' = reg
             /\ log' = <<Txn("read", DS1307_READ_ADR, DS1307_HOUR_REG_ADR,
                             reg[DS1307_HOUR_REG_ADR], 1)>> ) ]_vars

C8_Witness ==
    /\ op = [name |-> "ds1307_set_time_format", arg |-> DS1307_HOUR_FORMAT_12]
    /\ Len(log) = 1 /\ log[1].fn = "read"
    /\ ChipIs12H(reg[DS1307_HOUR_REG_ADR])
    /\ reg[DS1307_MIN_REG_ADR] = Packed(30)

\* The single-byte read of a register, as the log records it
ReadOf(r) == Txn("read", DS1307_READ_ADR, r, reg[r], 1)

\* C12: readAll issues exactly seven transactions, all single-byte reads and no
\* writes, of the registers year (6), month (5), date (4), day (3), hour (2),
\* minute (1), second (0), in this order.
C12_ReadAllSequence ==
    op.name = "DS1307_read_date_time" =>
        log = <<ReadOf(DS1307_YEAR_REG_ADR), ReadOf(DS1307_MONTH_REG_ADR),
                ReadOf(DS1307_DATE_REG_ADR), ReadOf(DS1307_DAY_REG_ADR),
                ReadOf(DS1307_HOUR_REG_ADR), ReadOf(DS1307_MIN_REG_ADR),
                ReadOf(DS1307_SEC_REG_ADR)>>

C12_Witness ==
    /\ op.name = "DS1307_read_date_time"
    /\ Len(log) = 7
    /\ log[1].reg_adr = DS1307_YEAR_REG_ADR /\ log[7].reg_adr = DS1307_SEC_REG_ADR
    /\ usr.minute = 30 /\ usr.month = 6

\* The single-byte send of a byte to a register, as the log records it
SendOf(r, data) == Txn("send", DS1307_WRITE_ADR, r, data, 1)

\* Whether the last completed call is a setTimeFormat whose target differs from the
\* mode the hour register was in, the byte its first transaction read
FormatChanged ==
    /\ op.name = "ds1307_set_time_format"
    /\ Len(log) >= 1
    /\ ChipIs12H(log[1].data) # (op.arg = DS1307_HOUR_FORMAT_12)

\* The hour-register byte of the register layout for the context's hour in the
\* context's mode
HourByte ==
    IF usr.time_format = DS1307_HOUR_FORMAT_12 THEN Hour12Byte(usr.hour)
    ELSE Packed(usr.hour)

\* C14: a setTimeFormat that changes the format issues exactly nine single-byte
\* transactions in this order: read of hour, send of the halt byte to seconds, then
\* sends to year, month, date, day, hour, minute, second, each carrying the encoding
\* of the corresponding context field.
C14_NineTransactions ==
    FormatChanged =>
        /\ Len(log) = 9
        /\ log[1].fn = "read" /\ log[1].address = DS1307_READ_ADR
        /\ log[1].reg_adr = DS1307_HOUR_REG_ADR /\ log[1].size = 1
        /\ SubSeq(log, 2, 9) =
              <<SendOf(DS1307_SEC_REG_ADR, 128),
                SendOf(DS1307_YEAR_REG_ADR, Packed(usr.year % 100)),
                SendOf(DS1307_MONTH_REG_ADR, Packed(usr.month)),
                SendOf(DS1307_DATE_REG_ADR, Packed(usr.date)),
                SendOf(DS1307_DAY_REG_ADR, Packed(usr.day)),
                SendOf(DS1307_HOUR_REG_ADR, HourByte),
                SendOf(DS1307_MIN_REG_ADR, Packed(usr.minute)),
                SendOf(DS1307_SEC_REG_ADR, Packed(usr.second))>>

---------------------------------------------------------------------------
(* Claims on SpecYear *)

\* The value of a packed BCD byte: high nibble times ten plus low nibble
Unpacked(b) == (b \div 16) * 10 + (b % 16)

CenturyInvariant == usr.century + (usr.year % 100) = usr.year

\* C6 as stated: after every completed setYear or getYear call,
\* century + (year % 100) = year.
C6_AfterSetOrGetYear ==
    op.name \in {"ds1307_set_year", "ds1307_get_year"} => CenturyInvariant

\* C6 as amended: after every completed getYear call, century + (year % 100) = year
\* (setYear updates the century alone, so the equality waits for the next getYear).
C6_AfterGetYear ==
    op.name = "ds1307_get_year" => CenturyInvariant

C6_Witness ==
    /\ op.name = "ds1307_get_year"
    /\ input.name = "ds1307_set_year" /\ input.arg = 2025
    /\ usr.century = 2000 /\ usr.year = 2025

\* C7: century stability.  After setYear(Y), getYear sets year = (Y - Y mod 100) + d,
\* d the decoded 2-digit value in the chip's year register: Y when the register is
\* as setYear wrote it, Y - Y mod 100 after a rollover to 00.  With no prior setYear,
\* getYear yields d alone.
C7_CenturyStability ==
    op.name = "ds1307_get_year" =>
        LET d == Unpacked(reg[DS1307_YEAR_REG_ADR])
            Y == input.arg
        IN  IF input.name = "ds1307_set_year"
            THEN /\ usr.year = (Y - (Y % 100)) + d
                 /\ reg[DS1307_YEAR_REG_ADR] = Packed(Y % 100) => usr.year = Y
                 /\ reg[DS1307_YEAR_REG_ADR] = 0 => usr.year = Y - (Y % 100)
            ELSE usr.year = d

C7_Witness ==
    /\ op.name = "ds1307_get_year"
    /\ input.name = "ds1307_set_year" /\ input.arg = 2025
    /\ reg[DS1307_YEAR_REG_ADR] = 0
    /\ usr.year = 2000

---------------------------------------------------------------------------
(* Claims on SpecSecond *)

\* C9: setClockHalt overwrites the seconds register: whatever it held, it holds 0x80
\* after a halt and 0x00 after an enable, and a following getSecond yields 0.
C9_ClockHaltOverwrites ==
    /\ op.name = "ds1307_set_ch" =>
          reg[DS1307_SEC_REG_ADR] = (IF op.arg = DS1307_CLOCK_DISABLE THEN 128 ELSE 0)
    /\ (input.name = "ds1307_set_ch" /\ step = 2) => usr.second = 0

C9_Witness ==
    /\ input.name = "ds1307_set_ch" /\ input.arg = DS1307_CLOCK_DISABLE /\ step = 2
    /\ reg[DS1307_SEC_REG_ADR] = 128
    /\ usr.second = 0

\* C10: setSecond(v) followed by getSecond leaves second = v, for every v in 0..59;
\* and getSecond stores the BCD decoding of the register byte with bit7 cleared.
C10_SecondRoundTrip ==
    /\ (input.name = "ds1307_set_second" /\ step = 2) => usr.second = input.arg
    /\ op.name = "ds1307_get_second" =>
          usr.second = Unpacked(reg[DS1307_SEC_REG_ADR] % 128)

C10_Witness ==
    /\ input.name = "ds1307_set_second" /\ input.arg = 59 /\ step = 2
    /\ usr.second = 59

---------------------------------------------------------------------------
(* Claims on SpecBcd *)

\* C11: for every v in 0..99, DecToBcd(v) has the tens digit of v in the high nibble
\* and the units digit in the low nibble, and BcdToDec(DecToBcd(v)) = v: the byte
\* setMinute(v) sends is that encoding, it decodes to v, and a following getMinute
\* stores v.
C11_BcdRoundTrip ==
    /\ op.name = "ds1307_set_minute" =>
          /\ Len(log) = 1
          /\ log[1].data \div 16 = op.arg \div 10
          /\ log[1].data % 16 = op.arg % 10
          /\ BcdToDec(log[1].data) = op.arg
    /\ (input.name = "ds1307_set_minute" /\ step = 2) => usr.minute = input.arg

C11_Witness ==
    /\ input.name = "ds1307_set_minute" /\ input.arg = MaxBcd /\ step = 2
    /\ reg[DS1307_MIN_REG_ADR] = 153
    /\ usr.minute = MaxBcd

---------------------------------------------------------------------------
(* The switch from 12H to 24H, on Spec *)

\* The 24-hour value of a display hour h with period bit pm
To24(h, pm) ==
    IF pm = 1 /\ h # 12 THEN h + 12
    ELSE IF pm = 0 /\ h = 12 THEN 0
    ELSE h

\* C16: for every valid 12-hour chip state (display hour h in 1..12, period p),
\* setTimeFormat(H24) leaves ctx.hour and the decoded hour register equal to h + 12
\* when p = PM and h # 12, to 0 when p = AM and h = 12, to h otherwise, with bit6 of
\* the hour register clear and ctx.timeFormat = H24.
C16_SwitchTo24 ==
    ( /\ op = [name |-> "ds1307_set_time_format", arg |-> DS1307_HOUR_FORMAT_24]
      /\ log[1].data \in Hour12Bytes ) =>
        LET before == log[1].data
            expected == To24(Unpacked(before % 32), Bit(before, 5))
        IN  /\ usr.hour = expected
            /\ Unpacked(reg[DS1307_HOUR_REG_ADR] % 64) = expected
            /\ Bit(reg[DS1307_HOUR_REG_ADR], 6) = 0
            /\ usr.time_format = DS1307_HOUR_FORMAT_24

C16_Witness ==
    /\ op = [name |-> "ds1307_set_time_format", arg |-> DS1307_HOUR_FORMAT_24]
    /\ log[1].data = 64 + Packed(12)
    /\ usr.hour = 0
    /\ reg[DS1307_HOUR_REG_ADR] = 0

---------------------------------------------------------------------------
(* Claims on SpecFields *)

\* The register of each field in the register map, by the setter and by the getter
\* of the field
SetterReg ==
    [ds1307_set_second |-> DS1307_SEC_REG_ADR, ds1307_set_minute |-> DS1307_MIN_REG_ADR,
     ds1307_set_hour |-> DS1307_HOUR_REG_ADR, ds1307_set_day |-> DS1307_DAY_REG_ADR,
     ds1307_set_date |-> DS1307_DATE_REG_ADR, ds1307_set_month |-> DS1307_MONTH_REG_ADR,
     ds1307_set_year |-> DS1307_YEAR_REG_ADR, ds1307_set_ch |-> DS1307_SEC_REG_ADR]

GetterReg ==
    [ds1307_get_second |-> DS1307_SEC_REG_ADR, ds1307_get_minute |-> DS1307_MIN_REG_ADR,
     ds1307_get_hour |-> DS1307_HOUR_REG_ADR, ds1307_get_day |-> DS1307_DAY_REG_ADR,
     ds1307_get_date |-> DS1307_DATE_REG_ADR, ds1307_get_month |-> DS1307_MONTH_REG_ADR,
     ds1307_get_year |-> DS1307_YEAR_REG_ADR]

\* C13: every single-field accessor performs exactly one transaction of length 1 at
\* the register of its field: a setter (and setClockHalt) one send to device address
\* 0xD0, a getter one read from device address 0xD1, and a getter leaves every chip
\* register as it was.
C13_OneTransactionEach ==
    [][ /\ op'.name \in DOMAIN SetterReg =>
              /\ Len(log') = 1
              /\ log'[1].fn = "send" /\ log'[1].address = 208 /\ log'[1].size = 1
              /\ log'[1].reg_adr = SetterReg[op'.name]
        /\ op'.name \in DOMAIN GetterReg =>
              /\ Len(log') = 1
              /\ log'[1].fn = "read" /\ log'[1].address = 209 /\ log'[1].size = 1
              /\ log'[1].reg_adr = GetterReg[op'.name]
              /\ reg' = reg ]_vars

C13_Witness ==
    /\ op = [name |-> "ds1307_get_date", arg |-> 0]
    /\ log = <<Txn("read", DS1307_READ_ADR, DS1307_DATE_REG_ADR, Packed(31), 1)>>
    /\ usr.date = 31

\* Whether the k-th transaction of the last call is a send to register r
IsSendTo(k, r) == log[k].fn = "send" /\ log[k].reg_adr = r

\* Whether the seconds register has bit7 set once the first k transactions of the
\* last call are done: the latest send to it among them carries bit7
HaltedAfter(k) ==
    \E i \in 1..k :
        /\ IsSendTo(i, DS1307_SEC_REG_ADR) /\ Bit(log[i].data, 7) = 1
        /\ \A j \in (i + 1)..k : ~IsSendTo(j, DS1307_SEC_REG_ADR)

\* C15: during a format-changing setTimeFormat the seconds register has bit7 = 1
\* after the first write and after every transaction up to the one before the final
\* seconds write, the writes of year, month, date, day, hour and minute among them;
\* and with ctx.second in 0..59 the final write leaves bit7 = 0.
C15_HaltedDuringTransition ==
    FormatChanged =>
        /\ IsSendTo(2, DS1307_SEC_REG_ADR)
        /\ \A k \in 2..(Len(log) - 1) : HaltedAfter(k)
        /\ \A r \in {DS1307_YEAR_REG_ADR, DS1307_MONTH_REG_ADR, DS1307_DATE_REG_ADR,
                      DS1307_DAY_REG_ADR, DS1307_HOUR_REG_ADR, DS1307_MIN_REG_ADR} :
              \E k \in 3..(Len(log) - 1) : IsSendTo(k, r)
        /\ IsSendTo(Len(log), DS1307_SEC_REG_ADR)
        /\ usr.second \in 0..MaxSecond => Bit(reg[DS1307_SEC_REG_ADR], 7) = 0

C15_Witness ==
    /\ FormatChanged
    /\ Len(log) = 9
    /\ usr.second = 45
    /\ reg[DS1307_SEC_REG_ADR] = Packed(45)

\* Whether the step is a setTimeFormat call whose target differs from the mode the
\* hour register is in before the call
FormatChanging ==
    /\ op'.name = "ds1307_set_time_format"
    /\ ChipIs12H(reg[DS1307_HOUR_REG_ADR]) # (op'.arg = DS1307_HOUR_FORMAT_12)

\* C17: after any sequence of setter and getter calls, a format-changing
\* setTimeFormat leaves the chip's minute, date, day-of-week, month and year
\* registers holding the values they held before the call.
C17_FormatChangeKeepsFields ==
    [][ (op.name \in (DOMAIN SetterReg \cup DOMAIN GetterReg) /\ FormatChanging) =>
            \A r \in {DS1307_MIN_REG_ADR, DS1307_DATE_REG_ADR, DS1307_DAY_REG_ADR,
                      DS1307_MONTH_REG_ADR, DS1307_YEAR_REG_ADR} : reg'[r] = reg[r] ]_vars

\* Register files whose time and date fields hold valid values of the register map
ValidFields(regs) ==
    /\ regs[DS1307_SEC_REG_ADR] % 128 \in {Packed(v) : v \in 0..MaxSecond}
    /\ regs[DS1307_MIN_REG_ADR] \in {Packed(v) : v \in 0..MaxSecond}
    /\ regs[DS1307_HOUR_REG_ADR] \in Hour24Bytes \cup Hour12Bytes
    /\ regs[DS1307_DAY_REG_ADR] \in 1..7
    /\ regs[DS1307_DATE_REG_ADR] \in {Packed(v) : v \in 1..31}
    /\ regs[DS1307_MONTH_REG_ADR] \in {Packed(v) : v \in 1..12}
    /\ regs[DS1307_YEAR_REG_ADR] \in {Packed(v) : v \in 0..MaxBcd}

\* C18: if readAll completed immediately before a format-changing setTimeFormat, on
\* a chip holding valid field values, then after setTimeFormat the year, month, date,
\* day and minute registers are unchanged, the seconds register is the BCD of
\* ctx.second with CH clear, ctx.century is unchanged, and a following getYear
\* returns the full year readAll returned.
C18_FormatChangeAfterReadAll ==
    [][ (op.name = "DS1307_read_date_time" /\ ValidFields(reg) /\ FormatChanging) =>
            /\ \A r \in {DS1307_YEAR_REG_ADR, DS1307_MONTH_REG_ADR, DS1307_DATE_REG_ADR,
                          DS1307_DAY_REG_ADR, DS1307_MIN_REG_ADR} : reg'[r] = reg[r]
            /\ reg'[DS1307_SEC_REG_ADR] = Packed(usr'.second)
            /\ Bit(reg'[DS1307_SEC_REG_ADR], 7) = 0
            /\ usr'.century = usr.century
            /\ ds1307_get_year([usr |-> usr', reg |-> reg', log |-> <<>>]).usr.year
                   = usr.year ]_vars

C18_Witness ==
    /\ FormatChanged
    /\ Len(log) = 9
    /\ usr.century = 1900 /\ usr.year = 1999
    /\ reg[DS1307_YEAR_REG_ADR] = Packed(99)
    /\ usr.month = 6 /\ reg[DS1307_MONTH_REG_ADR] = Packed(6)
    /\ usr.minute = 30 /\ reg[DS1307_MIN_REG_ADR] = Packed(30)
    /\ usr.second = 45 /\ reg[DS1307_SEC_REG_ADR] = Packed(45)

\* C19: setSecond, setMinute, setHour, setDate, setDay, setMonth and setClockHalt
\* leave every field of the context unchanged, and setYear changes no field other
\* than century; so after setX(v) the cached field holds its previous value.
C19_SettersKeepContext ==
    [][ /\ op'.name \in (DOMAIN SetterReg \ {"ds1307_set_year"}) => usr' = usr
        /\ op'.name = "ds1307_set_year" =>
              usr' = [usr EXCEPT !.century = op'.arg - (op'.arg % 100)] ]_vars

C19_Witness ==
    /\ op = [name |-> "ds1307_set_minute", arg |-> MaxSecond]
    /\ reg[DS1307_MIN_REG_ADR] = Packed(MaxSecond)
    /\ usr.minute = 30

\* Whether the step is a driver call that does not write the seconds register: a
\* getter, readAll, a setter of another field, or a setTimeFormat to the mode the
\* chip is in
KeepsSeconds ==
    \/ op'.name \in DOMAIN GetterReg \cup {"DS1307_read_date_time"}
    \/ op'.name \in DOMAIN SetterReg \ {"ds1307_set_second", "ds1307_set_ch"}
    \/ op'.name = "ds1307_set_time_format" /\ ~FormatChanging

\* What a step does to a CH bit that is set: kept by the calls that do not write the
\* seconds register, cleared by setClockHalt(enable), by setSecond(v) with v in
\* 0..59, and by a format-changing setTimeFormat when formatChangeClears holds
ChAfterCall(formatChangeClears) ==
    Bit(reg[DS1307_SEC_REG_ADR], 7) = 1 =>
        /\ KeepsSeconds => Bit(reg'[DS1307_SEC_REG_ADR], 7) = 1
        /\ op' = [name |-> "ds1307_set_ch", arg |-> DS1307_CLOCK_ENABLE] =>
              Bit(reg'[DS1307_SEC_REG_ADR], 7) = 0
        /\ (op'.name = "ds1307_set_second" /\ op'.arg \in 0..MaxSecond) =>
              Bit(reg'[DS1307_SEC_REG_ADR], 7) = 0
        /\ (FormatChanging /\ formatChangeClears) =>
              Bit(reg'[DS1307_SEC_REG_ADR], 7) = 0

====
